---- MODULE Spec2Model ----
(***************************************************************************)
(* A model of the mcts repository:                                         *)
(*   - libgame/src/lib.rs : the GameState / GameAgent traits, GameRunner   *)
(*     and the reference game of its test module (SimpleGame);             *)
(*   - src/node.rs        : the Rc-based tree Node;                        *)
(*   - src/write_once_lock.rs : WriteOnceLock.                             *)
(* The runner is modelled statement by statement (one action per line of   *)
(* GameRunner::play), the default method GameState::next likewise, and     *)
(* the tree as a heap of NodeInternal cells.                               *)
(***************************************************************************)
EXTENDS Integers, Sequences, FiniteSets, TLC

VARIABLES
    \* ---- GameRunner (lib.rs 53-84) ----
    game,             \* the Game the runner is instantiated with (the type parameter G)
    black_agent,      \* GameRunner.black_agent: the kind of agent boxed there
    white_agent,      \* GameRunner.white_agent
    game_state,       \* GameRunner.game_state
    pc,               \* position of play(): "loop", "select", "legal", "pick", "apply", "done", "panicked"
    active_player,    \* local of play(): which field the reference points to
    legal,            \* local legal_actions of play()
    selected_action,  \* local selected_action of play()
    \* ---- observations of the run (history, not program state) ----
    start_state,      \* the state handed to GameRunner::new
    picks,            \* number of completed pick_action calls
    applied,          \* number of make_next calls made by play()
    checked,          \* result of the last outcome() evaluated at line 73
    called,           \* the agent whose pick_action was called last
    shown_state,      \* the state passed to the last pick_action call
    shown_actions,    \* the slice passed to the last pick_action call
    prev_turn,        \* current_player_turn() shown in the call before the last
    returned,         \* the value the last pick_action call returned
    applied_action,   \* the argument of the last make_next call
    is_final_calls,   \* number of GameOutcome::is_final calls made by play()
    \* ---- GameState::next (lib.rs 20-24) ----
    next_pc,          \* "idle", "entry", "cloned", "made", "returned"
    next_self,        \* the receiver *self
    next_action,      \* the argument action
    next_local,       \* the local `next`
    next_ret,         \* the returned value
    next_orig,        \* the receiver as it was at the call (history)
    \* ---- Node (node.rs) ----
    heap,             \* the NodeInternal cells allocated so far, by address 1..Len
    added,            \* per cell: the data added to it, in order (history)
    made,             \* per cell: the node whose add call made it, None for Node::new (history)
    muts,             \* number of changes made to a Vec through a RefMut so far (history)
    borrow,           \* per cell: the borrow flag of its RefCell, -1 a RefMut, k >= 0 k Refs
    held,             \* the cells the caller owns a handle to (its variables)
    freed,            \* the cells whose strong count reached zero
    node_panic,       \* None, or the error of the panic that ended the caller
    \* ---- the walk of tests::complex_walk_operations (node.rs 227-236) ----
    walk_pc,          \* "idle", "walking", "done"
    stack,            \* the Vec of handles still to visit
    visited,          \* the cells popped so far, in order (history)
    test_sum,         \* the local test_sum
    \* ---- WriteOnceLock (write_once_lock.rs) ----
    lock_data,        \* the Option<T> inside the AtomicRefCell
    lock_has_written, \* the AtomicBool has_written
    guards,           \* per thread: the borrow its frames hold, "none", "mut" or "shared"
    lock_pc,          \* per thread: "caller", "write_once" (past line 15), "unwinding", "panicked"
    last_write_once,  \* the last write_once call: what it found and how it ended (history)
    seen              \* the values successive read calls observed, without repeats (history)

runner_vars == <<game, is_final_calls, black_agent, white_agent, game_state, pc, active_player, legal,
                 selected_action, start_state, picks, applied, checked, called,
                 shown_state, shown_actions, prev_turn, returned, applied_action>>
next_vars == <<next_pc, next_self, next_action, next_local, next_ret, next_orig>>
node_vars == <<heap, added, made, muts, borrow, held, freed, node_panic>>
walk_vars == <<walk_pc, stack, visited, test_sum>>
lock_vars == <<lock_data, lock_has_written, guards, lock_pc, last_write_once, seen>>
vars == <<runner_vars, next_vars, node_vars, walk_vars, lock_vars>>

-----------------------------------------------------------------------------
(* Bounds of the model *)

\* start states handed to GameRunner::new have num 0 or FirstLateStart..MaxStartNum
FirstLateStart == 37
MaxStartNum == 44
\* play() is followed for at most MaxSteps iterations
MaxSteps == 25
\* receivers of GameState::next have num in 0..MaxNextNum
MaxNextNum == 45
\* at most MaxNodes cells are allocated
MaxNodes == 4
\* data stored in a node is in 1..MaxData
MaxData == 2
\* add_all_children is called with at most MaxBatch data
MaxBatch == 2
\* an agent that leaves its slice returns a bump in 0..MaxBump
MaxBump == 5
\* guards the caller keeps, handles beyond the one from Node::new and changes
\* through a RefMut are followed while the cells allocated, the guards alive,
\* the handles kept and the changes made are at most MaxInHand together
MaxInHand == 5
\* and the data are in 1..MaxMutData
MaxMutData == 1
\* the walk is started on trees of at most MaxWalkNodes cells
MaxWalkNodes == 4
\* threads sharing one WriteOnceLock
MaxThreads == 2
\* values stored in the lock are in 1..MaxValue
MaxValue == 2

-----------------------------------------------------------------------------
(* Option<T> *)

None == <<>>
Some(x) == <<x>>
is_none(o) == o = None
is_some(o) == o # None
unwrap(o) == o[1]

Range(s) == {s[i] : i \in 1..Len(s)}

-----------------------------------------------------------------------------
(* lib.rs: PlayerColor and the reference game of the test module *)

Black == "Black"
White == "White"
PlayerColor == {Black, White}

BlackWins == "BlackWins"
WhiteWins == "WhiteWins"
BothLose == "BothLose"

SimpleGameState_new == [num |-> 0, cur_player |-> Black]

SimpleGameAction_new(bump) == [bump |-> bump]

clone(s) == s

\* variant: `self.num = action.bump` in place of `+=`
make_next_assign(s, action) == [s EXCEPT !.num = action.bump]

\* num is a usize; play() calls make_next only when num < 42 and the receivers of
\* next are bounded by MaxNextNum, so the sum stays far below the type's width
make_next(s, action) == [s EXCEPT !.num = s.num + action.bump]

\* variant: only the bumps that do not overshoot 42 are listed
legal_actions_filtered(s) ==
    SelectSeq(<<SimpleGameAction_new(2), SimpleGameAction_new(3), SimpleGameAction_new(4)>>,
              LAMBDA a : s.num + a.bump <= 42)

\* variant: a fourth bump is listed
legal_actions_wide(s) ==
    <<SimpleGameAction_new(2), SimpleGameAction_new(3), SimpleGameAction_new(4),
      SimpleGameAction_new(5)>>

legal_actions(s) ==
    <<SimpleGameAction_new(2), SimpleGameAction_new(3), SimpleGameAction_new(4)>>

current_player_turn(s) == s.cur_player

\* variant: the arms of the match on cur_player swapped
outcome_swapped(s) ==
    IF s.num < 42 THEN None
    ELSE IF s.num > 42 THEN Some(BothLose)
    ELSE Some(IF s.cur_player = Black THEN WhiteWins ELSE BlackWins)

outcome(s) ==
    IF s.num < 42 THEN None
    ELSE IF s.num > 42 THEN Some(BothLose)
    ELSE Some(IF s.cur_player = Black THEN BlackWins ELSE WhiteWins)

\* The runner is generic in the Game.  SimpleGame is the game of the test
\* module; NoMovesGame stands for an implementation of GameState that breaks
\* the contract of legal_actions: the same state, make_next and outcome, but
\* no legal action listed in any state.
SimpleGame == "SimpleGame"
NoMovesGame == "NoMovesGame"

\* G::GameState::legal_actions, dispatched on the game
GameState_legal_actions(g, s) == IF g = SimpleGame THEN legal_actions(s) ELSE <<>>

\* GameOutcome::is_final of SimpleGameOutcome: todo!() panics
is_final(o) == "panic"

-----------------------------------------------------------------------------
(* lib.rs: agents *)

\* SimpleAgent is the agent of the test module; AnyMember stands for every
\* other implementation of GameAgent that returns an element of its slice,
\* NonMember for one that returns an action that is not in its slice.
SimpleAgent == "SimpleAgent"
AnyMember == "AnyMember"
NonMember == "NonMember"
AgentKinds == {SimpleAgent, AnyMember}

\* the actions an agent can construct
OtherActions == {SimpleGameAction_new(b) : b \in 0..MaxBump}

\* SimpleAgent indexes actions[0]: out of range on an empty slice
pick_action_panics(agent, actions) == agent = SimpleAgent /\ Len(actions) = 0

\* variant: SimpleAgent takes the last listed action
pick_action_last(agent, state, actions) ==
    IF agent = SimpleAgent THEN {actions[Len(actions)]}
    ELSE IF agent = AnyMember THEN Range(actions)
    ELSE OtherActions \ Range(actions)

\* the set of values a call agent.pick_action(state, actions) may return
pick_action(agent, state, actions) ==
    IF agent = SimpleAgent THEN (IF Len(actions) > 0 THEN {actions[1]} ELSE {})
    ELSE IF agent = AnyMember THEN Range(actions)
    ELSE OtherActions \ Range(actions)

-----------------------------------------------------------------------------
(* lib.rs: GameRunner *)

StartNums == {0} \cup (FirstLateStart..MaxStartNum)
StartStates == {[num |-> n, cur_player |-> c] : n \in StartNums, c \in PlayerColor}

\* variant: the loop runs while num <= 42
loop_condition_le(s) == s.num <= 42

\* line 73: the loop condition
loop_condition(s) == is_none(outcome(s))

\* variant: the arms of the match swapped
select_agent_swapped(turn) == IF turn = Black THEN "white_agent" ELSE "black_agent"

\* lines 74-77: the match on current_player_turn()
select_agent(turn) == IF turn = Black THEN "black_agent" ELSE "white_agent"

agent_of(field) == IF field = "black_agent" THEN black_agent ELSE white_agent

\* GameRunner::new followed by the call of play()
RunnerInit ==
    /\ game = SimpleGame
    /\ is_final_calls = 0
    /\ black_agent \in AgentKinds
    /\ white_agent \in AgentKinds
    /\ start_state \in StartStates
    /\ game_state = start_state
    /\ pc = "loop"
    /\ active_player = None
    /\ legal = None
    /\ selected_action = None
    /\ picks = 0
    /\ applied = 0
    /\ checked = None
    /\ called = None
    /\ shown_state = None
    /\ shown_actions = None
    /\ prev_turn = None
    /\ returned = None
    /\ applied_action = None

\* a runner that is never played (the other specifications)
RunnerIdle ==
    /\ game = SimpleGame
    /\ is_final_calls = 0
    /\ black_agent = SimpleAgent
    /\ white_agent = SimpleAgent
    /\ start_state = SimpleGameState_new
    /\ game_state = start_state
    /\ pc = "idle"
    /\ active_player = None
    /\ legal = None
    /\ selected_action = None
    /\ picks = 0
    /\ applied = 0
    /\ checked = None
    /\ called = None
    /\ shown_state = None
    /\ shown_actions = None
    /\ prev_turn = None
    /\ returned = None
    /\ applied_action = None

\* GameRunner::new with any game and any agents, those that break their contracts
\* included (an agent bound to return a member cannot play NoMovesGame)
RunnerOpenInit ==
    /\ game \in {SimpleGame, NoMovesGame}
    /\ is_final_calls = 0
    /\ black_agent \in (IF game = SimpleGame THEN AgentKinds ELSE {SimpleAgent}) \cup {NonMember}
    /\ white_agent \in (IF game = SimpleGame THEN AgentKinds ELSE {SimpleAgent}) \cup {NonMember}
    /\ start_state \in StartStates
    /\ game_state = start_state
    /\ pc = "loop"
    /\ active_player = None
    /\ legal = None
    /\ selected_action = None
    /\ picks = 0
    /\ applied = 0
    /\ checked = None
    /\ called = None
    /\ shown_state = None
    /\ shown_actions = None
    /\ prev_turn = None
    /\ returned = None
    /\ applied_action = None

\* variant: the loop asks the outcome whether it is final
LoopCheck_is_final ==
    /\ pc = "loop"
    /\ applied < MaxSteps
    /\ checked' = Some(outcome(game_state))
    /\ is_final_calls' = IF is_some(outcome(game_state)) THEN is_final_calls + 1 ELSE is_final_calls
    /\ pc' = IF is_none(outcome(game_state)) THEN "select"
             ELSE IF is_final(unwrap(outcome(game_state))) = "panic" THEN "panicked"
             ELSE "done"
    /\ UNCHANGED <<game, black_agent, white_agent, game_state, active_player, legal,
                   selected_action, start_state, picks, applied, called,
                   shown_state, shown_actions, prev_turn, returned, applied_action>>
    /\ UNCHANGED <<next_vars, node_vars, walk_vars, lock_vars>>

\* variant: a do-while loop, the first iteration entered without the check
LoopCheck_dowhile ==
    /\ pc = "loop"
    /\ applied < MaxSteps
    /\ checked' = IF picks = 0 THEN checked ELSE Some(outcome(game_state))
    /\ pc' = IF picks = 0 \/ loop_condition(game_state) THEN "select" ELSE "done"
    /\ UNCHANGED <<game, is_final_calls, black_agent, white_agent, game_state, active_player, legal,
                   selected_action, start_state, picks, applied, called,
                   shown_state, shown_actions, prev_turn, returned, applied_action>>
    /\ UNCHANGED <<next_vars, node_vars, walk_vars, lock_vars>>

\* line 73: while self.game_state.outcome().is_none()
LoopCheck ==
    /\ pc = "loop"
    /\ applied < MaxSteps
    /\ checked' = Some(outcome(game_state))
    /\ pc' = IF loop_condition(game_state) THEN "select" ELSE "done"
    /\ UNCHANGED <<game, is_final_calls, black_agent, white_agent, game_state, active_player, legal,
                   selected_action, start_state, picks, applied, called,
                   shown_state, shown_actions, prev_turn, returned, applied_action>>
    /\ UNCHANGED <<next_vars, node_vars, walk_vars, lock_vars>>

\* lines 74-77: let active_player = match ...
SelectAgent ==
    /\ pc = "select"
    /\ active_player' = Some(select_agent(current_player_turn(game_state)))
    /\ pc' = "legal"
    /\ UNCHANGED <<game, is_final_calls, black_agent, white_agent, game_state, legal,
                   selected_action, start_state, picks, applied, checked, called,
                   shown_state, shown_actions, prev_turn, returned, applied_action>>
    /\ UNCHANGED <<next_vars, node_vars, walk_vars, lock_vars>>

\* variant: the runner stops when no action is legal
LegalActions_guarded ==
    /\ pc = "legal"
    /\ legal' = Some(GameState_legal_actions(game, game_state))
    /\ pc' = IF GameState_legal_actions(game, game_state) = <<>> THEN "done" ELSE "pick"
    /\ UNCHANGED <<game, is_final_calls, black_agent, white_agent, game_state, active_player,
                   selected_action, start_state, picks, applied, checked, called,
                   shown_state, shown_actions, prev_turn, returned, applied_action>>
    /\ UNCHANGED <<next_vars, node_vars, walk_vars, lock_vars>>

\* line 79: let legal_actions = self.game_state.legal_actions()
LegalActions ==
    /\ pc = "legal"
    /\ legal' = Some(GameState_legal_actions(game, game_state))
    /\ pc' = "pick"
    /\ UNCHANGED <<game, is_final_calls, black_agent, white_agent, game_state, active_player,
                   selected_action, start_state, picks, applied, checked, called,
                   shown_state, shown_actions, prev_turn, returned, applied_action>>
    /\ UNCHANGED <<next_vars, node_vars, walk_vars, lock_vars>>

\* variant: the agent is handed the state mutably and applies its choice itself
PickAction_mutating ==
    /\ pc = "pick"
    /\ \E a \in pick_action(agent_of(unwrap(active_player)), game_state, unwrap(legal)) :
          /\ selected_action' = Some(a)
          /\ returned' = Some(a)
          /\ game_state' = make_next(game_state, a)
    /\ called' = active_player
    /\ prev_turn' = IF is_some(shown_state)
                    THEN Some(current_player_turn(unwrap(shown_state)))
                    ELSE None
    /\ shown_state' = Some(game_state)
    /\ shown_actions' = legal
    /\ picks' = picks + 1
    /\ pc' = "apply"
    /\ UNCHANGED <<game, is_final_calls, black_agent, white_agent, active_player, legal,
                   start_state, applied, checked, applied_action>>
    /\ UNCHANGED <<next_vars, node_vars, walk_vars, lock_vars>>

\* line 80: let selected_action = active_player.pick_action(&self.game_state, &legal_actions)
PickAction ==
    /\ pc = "pick"
    /\ \E a \in pick_action(agent_of(unwrap(active_player)), game_state, unwrap(legal)) :
          /\ selected_action' = Some(a)
          /\ returned' = Some(a)
    /\ called' = active_player
    /\ prev_turn' = IF is_some(shown_state)
                    THEN Some(current_player_turn(unwrap(shown_state)))
                    ELSE None
    /\ shown_state' = Some(game_state)
    /\ shown_actions' = legal
    /\ picks' = picks + 1
    /\ pc' = "apply"
    /\ UNCHANGED <<game, is_final_calls, black_agent, white_agent, game_state, active_player, legal,
                   start_state, applied, checked, applied_action>>
    /\ UNCHANGED <<next_vars, node_vars, walk_vars, lock_vars>>

\* line 80 when the call panics (SimpleAgent, line 179, on an empty slice):
\* play() unwinds and never returns normally
PickActionPanic ==
    /\ pc = "pick"
    /\ pick_action_panics(agent_of(unwrap(active_player)), unwrap(legal))
    /\ called' = active_player
    /\ prev_turn' = IF is_some(shown_state)
                    THEN Some(current_player_turn(unwrap(shown_state)))
                    ELSE None
    /\ shown_state' = Some(game_state)
    /\ shown_actions' = legal
    /\ pc' = "panicked"
    /\ UNCHANGED <<game, is_final_calls, black_agent, white_agent, game_state, active_player, legal,
                   selected_action, start_state, picks, applied, checked, returned,
                   applied_action>>
    /\ UNCHANGED <<next_vars, node_vars, walk_vars, lock_vars>>

\* variant: the runner checks membership and fails fast on a non-member
ApplyAction_validated ==
    /\ pc = "apply"
    /\ IF unwrap(selected_action) \in Range(unwrap(legal))
       THEN /\ game_state' = make_next(game_state, unwrap(selected_action))
            /\ applied_action' = selected_action
            /\ applied' = applied + 1
            /\ pc' = "loop"
       ELSE /\ UNCHANGED <<game_state, applied_action, applied>>
            /\ pc' = "panicked"
    /\ active_player' = None
    /\ legal' = None
    /\ selected_action' = None
    /\ UNCHANGED <<game, is_final_calls, black_agent, white_agent, start_state, picks, checked, called,
                   shown_state, shown_actions, prev_turn, returned>>
    /\ UNCHANGED <<next_vars, node_vars, walk_vars, lock_vars>>

\* variant: the first legal action is applied, not the selected one
ApplyAction_first ==
    /\ pc = "apply"
    /\ game_state' = make_next(game_state, unwrap(legal)[1])
    /\ applied_action' = Some(unwrap(legal)[1])
    /\ applied' = applied + 1
    /\ active_player' = None
    /\ legal' = None
    /\ selected_action' = None
    /\ pc' = "loop"
    /\ UNCHANGED <<game, is_final_calls, black_agent, white_agent, start_state, picks, checked, called,
                   shown_state, shown_actions, prev_turn, returned>>
    /\ UNCHANGED <<next_vars, node_vars, walk_vars, lock_vars>>

\* line 81: self.game_state.make_next(selected_action); line 82 ends the scope of the locals
ApplyAction ==
    /\ pc = "apply"
    /\ game_state' = make_next(game_state, unwrap(selected_action))
    /\ applied_action' = selected_action
    /\ applied' = applied + 1
    /\ active_player' = None
    /\ legal' = None
    /\ selected_action' = None
    /\ pc' = "loop"
    /\ UNCHANGED <<game, is_final_calls, black_agent, white_agent, start_state, picks, checked, called,
                   shown_state, shown_actions, prev_turn, returned>>
    /\ UNCHANGED <<next_vars, node_vars, walk_vars, lock_vars>>

play == LoopCheck \/ SelectAgent \/ LegalActions \/ PickAction \/ ApplyAction

-----------------------------------------------------------------------------
(* lib.rs: the default method GameState::next *)

NextStates == {[num |-> n, cur_player |-> c] : n \in 0..MaxNextNum, c \in PlayerColor}

NextIdle ==
    /\ next_pc = "idle"
    /\ next_self = SimpleGameState_new
    /\ next_orig = SimpleGameState_new
    /\ next_action = None
    /\ next_local = None
    /\ next_ret = None

\* a call s.next(a) with a legal action a
NextInit ==
    /\ next_pc = "entry"
    /\ next_self \in NextStates
    /\ next_orig = next_self
    /\ \E a \in Range(legal_actions(next_self)) : next_action = Some(a)
    /\ next_local = None
    /\ next_ret = None

\* line 21: let mut next = self.clone()
NextClone ==
    /\ next_pc = "entry"
    /\ next_local' = Some(clone(next_self))
    /\ next_pc' = "cloned"
    /\ UNCHANGED <<next_self, next_action, next_ret, next_orig>>
    /\ UNCHANGED <<runner_vars, node_vars, walk_vars, lock_vars>>

\* variant: make_next applied to the receiver, not to the clone
NextMakeNext_inplace ==
    /\ next_pc = "cloned"
    /\ next_self' = make_next(next_self, unwrap(next_action))
    /\ next_pc' = "made"
    /\ UNCHANGED <<next_local, next_action, next_ret, next_orig>>
    /\ UNCHANGED <<runner_vars, node_vars, walk_vars, lock_vars>>

\* line 22: next.make_next(action)
NextMakeNext ==
    /\ next_pc = "cloned"
    /\ next_local' = Some(make_next(unwrap(next_local), unwrap(next_action)))
    /\ next_pc' = "made"
    /\ UNCHANGED <<next_self, next_action, next_ret, next_orig>>
    /\ UNCHANGED <<runner_vars, node_vars, walk_vars, lock_vars>>

\* line 23: next
NextReturn ==
    /\ next_pc = "made"
    /\ next_ret' = next_local
    /\ next_local' = None
    /\ next_pc' = "returned"
    /\ UNCHANGED <<next_self, next_action, next_orig>>
    /\ UNCHANGED <<runner_vars, node_vars, walk_vars, lock_vars>>

next == NextClone \/ NextMakeNext \/ NextReturn

-----------------------------------------------------------------------------
(* node.rs: Node<T> *)

Data == 1..MaxData

\* Seq(Data) up to length n
RECURSIVE SeqsUpTo(_)
SeqsUpTo(n) ==
    IF n = 0 THEN {<<>>}
    ELSE LET shorter == SeqsUpTo(n - 1)
         IN shorter \cup {Append(s, d) : s \in {t \in shorter : Len(t) = n - 1}, d \in Data}

\* a NodeInternal (lines 8-13); parent is a Weak, children the RefCell's Vec
NodeInternal(data, parent) == [data |-> data, parent |-> parent, children |-> <<>>]

\* Node::new (lines 16-24)
Node_new(data) == NodeInternal(data, None)

\* Node::data (lines 45-47)
data(h, n) == h[n].data

\* Node::children (lines 49-53): the handles of the children, in the Vec's order
children(h, n) == h[n].children

\* variant: the handle inserted at the front of the Vec
push_front(v, x) == <<x>> \o v

\* Weak::upgrade: the cell a Weak points to, while its strong count is not
\* zero.  Weak::new() points to nothing.
upgrade(h, w) ==
    IF is_some(w) /\ unwrap(w) \in 1..Len(h) /\ unwrap(w) \notin freed THEN w ELSE None

\* Node::parent (lines 61-65)
parent(h, n) == upgrade(h, h[n].parent)

\* Node::clone_rc (lines 26-28): another handle to the same cell
clone_rc(n) == n

\* Vec::push of the handle of a new cell (lines 89-92)
push(v, x) == Append(v, x)

\* Vec::append (line 42)
append(v, w) == v \o w

\* Vec::swap, Vec::pop and Vec::clear, as a caller applies them to the Vec
\* behind the RefMut of children_mut (line 55)
swap(v, i, j) == [v EXCEPT ![i] = v[j], ![j] = v[i]]
pop(v) == SubSeq(v, 1, Len(v) - 1)
clear(v) == <<>>

\* Node::children_mut (lines 55-59) on the node at address n: the RefMut gives
\* the caller the Vec itself, and v is what the caller leaves in it
children_mut(h, n, v) == [h EXCEPT ![n].children = v]

\* Node::add_child (lines 82-93) on the node at address n: the heap afterwards
add_child(h, n, child_data) ==
    LET internal == NodeInternal(child_data, Some(n))
        c == Len(h) + 1
    IN [Append(h, internal) EXCEPT ![n].children = push(h[n].children, c)]

\* variant: the new cells are built without the back-reference (Weak::new())
RECURSIVE collect_orphans(_, _)
collect_orphans(n, children_data) ==
    IF children_data = <<>> THEN <<>>
    ELSE <<NodeInternal(Head(children_data), None)>> \o collect_orphans(n, Tail(children_data))

\* the cells add_all_children allocates, in the iterator's order (lines 32-40)
RECURSIVE collect(_, _)
collect(n, children_data) ==
    IF children_data = <<>> THEN <<>>
    ELSE <<NodeInternal(Head(children_data), Some(n))>> \o collect(n, Tail(children_data))

\* Node::add_all_children (lines 30-43) on the node at address n: the heap afterwards
add_all_children(h, n, children_data) ==
    LET new_cells == collect(n, children_data)
        new_handles == [i \in 1..Len(new_cells) |-> Len(h) + i]
    IN [h \o new_cells EXCEPT ![n].children = append(h[n].children, new_handles)]

\* the errors RefCell::borrow_mut and RefCell::borrow panic with
BorrowMutError == "BorrowMutError"
BorrowError == "BorrowError"

\* Rc: a cell is kept by a handle of the caller, by the handle a guard alive
\* on it (flags b) is borrowed through, or by a handle in the Vec of a cell that
\* is itself kept; fr are the cells freed so far
referenced(h, hs, fr, b, c) ==
    \/ c \in hs
    \/ b[c] # 0
    \/ \E m \in (1..Len(h)) \ fr : c \in Range(h[m].children)

\* Drop for Rc: the cells freed once the handles outside hs are gone; freeing a
\* cell drops its Vec, and with it the handles it holds
RECURSIVE drop_rc(_, _, _, _)
drop_rc(h, hs, fr, b) ==
    LET dead == {c \in (1..Len(h)) \ fr : ~referenced(h, hs, fr, b, c)}
    IN IF dead = {} THEN fr ELSE drop_rc(h, hs, fr \cup dead, b)

\* the heap once the cells fr are freed: their Vecs are gone
drop_vecs(h, fr) == [c \in 1..Len(h) |-> IF c \in fr THEN [h[c] EXCEPT !.children = <<>>] ELSE h[c]]

\* the cells the caller can get a &Node to: from its handles and the guard it
\* keeps, through children() / children_mut() and parent()
RECURSIVE reach(_, _)
reach(h, S) ==
    LET T == S \cup UNION {Range(h[c].children) : c \in S}
               \cup {unwrap(upgrade(h, h[c].parent)) : c \in {x \in S : is_some(upgrade(h, h[x].parent))}}
    IN IF T = S THEN S ELSE reach(h, T)

Accessible == reach(heap, held \cup {c \in (1..Len(heap)) \ freed : borrow[c] # 0})

\* the guards alive on the first k cells: a RefMut counts one, Refs one each
RECURSIVE alive(_, _)
alive(b, k) == IF k = 0 THEN 0 ELSE alive(b, k - 1) + (IF b[k] < 0 THEN 1 ELSE b[k])

\* no Ref and no RefMut is alive
NoGuard == alive(borrow, Len(borrow)) = 0

\* the size of a run: the cells allocated, the guards alive, the handles the
\* caller keeps and the changes it made through a RefMut
in_hand(h) == Len(h) + alive(borrow, Len(borrow)) + Cardinality(held) + muts

\* the runs in which guards, further handles and changes through a RefMut are
\* followed: heap h and k more things in hand stay within the bounds
Small(h, k) ==
    /\ in_hand(h) + k <= MaxInHand
    /\ \A c \in 1..Len(h) : h[c].data <= MaxMutData

\* only add_child and add_all_children were called on the handle from Node::new
Plain ==
    /\ muts = 0
    /\ held = {1}
    /\ freed = {}
    /\ NoGuard

NodeIdle ==
    /\ heap = <<>>
    /\ added = <<>>
    /\ made = <<>>
    /\ muts = 0
    /\ borrow = <<>>
    /\ held = {}
    /\ freed = {}
    /\ node_panic = None

WalkIdle ==
    /\ walk_pc = "idle"
    /\ stack = <<>>
    /\ visited = <<>>
    /\ test_sum = 0

LockIdle ==
    /\ lock_data = None
    /\ lock_has_written = FALSE
    /\ guards = <<>>
    /\ lock_pc = <<>>
    /\ last_write_once = None
    /\ seen = <<>>

\* let root = Node::new(d)
NodeInit ==
    /\ \E d \in Data : heap = <<Node_new(d)>>
    /\ added = <<<<>>>>
    /\ made = <<None>>
    /\ muts = 0
    /\ borrow = <<0>>
    /\ held = {1}
    /\ freed = {}
    /\ node_panic = None

\* n.add_child(d) on a node the caller can get to; borrow_mut of line 91 succeeds
AddChild ==
    /\ node_panic = None
    /\ Len(heap) < MaxNodes
    /\ \E n \in Accessible, d \in Data :
          /\ borrow[n] = 0
          /\ heap' = add_child(heap, n, d)
          /\ ~Plain => Small(heap', 0)
          /\ added' = Append([added EXCEPT ![n] = Append(@, d)], <<>>)
          /\ made' = Append(made, Some(n))
    /\ borrow' = Append(borrow, 0)
    /\ UNCHANGED <<muts, held, freed, node_panic>>
    /\ UNCHANGED <<runner_vars, next_vars, walk_vars, lock_vars>>

\* n.add_child(d) while a guard of n's RefCell is alive: borrow_mut of line 91
\* panics, the cell built at lines 83-87 is dropped
AddChildPanic ==
    /\ node_panic = None
    /\ \E n \in Accessible : borrow[n] # 0
    /\ node_panic' = Some(BorrowMutError)
    /\ UNCHANGED <<heap, added, made, muts, borrow, held, freed>>
    /\ UNCHANGED <<runner_vars, next_vars, walk_vars, lock_vars>>

\* n.add_all_children(ds) on a node the caller can get to; borrow_mut of line 42 succeeds
AddAllChildren ==
    /\ node_panic = None
    /\ \E n \in Accessible, ds \in SeqsUpTo(MaxBatch) :
          /\ borrow[n] = 0
          /\ Len(heap) + Len(ds) <= MaxNodes
          /\ heap' = add_all_children(heap, n, ds)
          /\ ~Plain => Small(heap', 0)
          /\ added' = [added EXCEPT ![n] = @ \o ds] \o [i \in 1..Len(ds) |-> <<>>]
          /\ made' = made \o [i \in 1..Len(ds) |-> Some(n)]
          /\ borrow' = borrow \o [i \in 1..Len(ds) |-> 0]
    /\ UNCHANGED <<muts, held, freed, node_panic>>
    /\ UNCHANGED <<runner_vars, next_vars, walk_vars, lock_vars>>

\* n.add_all_children(ds) while a guard of n's RefCell is alive: borrow_mut of
\* line 42 panics, the cells collected at lines 32-40 are dropped
AddAllChildrenPanic ==
    /\ node_panic = None
    /\ \E n \in Accessible : borrow[n] # 0
    /\ node_panic' = Some(BorrowMutError)
    /\ UNCHANGED <<heap, added, made, muts, borrow, held, freed>>
    /\ UNCHANGED <<runner_vars, next_vars, walk_vars, lock_vars>>

\* let r = n.children() (lines 49-53): borrow of line 52 succeeds while no
\* RefMut of n's RefCell is alive; the caller keeps the Ref
Children ==
    /\ node_panic = None
    /\ Small(heap, 1)
    /\ \E n \in Accessible :
          /\ borrow[n] >= 0
          /\ borrow' = [borrow EXCEPT ![n] = @ + 1]
    /\ UNCHANGED <<heap, added, made, muts, held, freed, node_panic>>
    /\ UNCHANGED <<runner_vars, next_vars, walk_vars, lock_vars>>

\* n.children() while a RefMut of n's RefCell is alive: borrow of line 52 panics
ChildrenPanic ==
    /\ node_panic = None
    /\ \E n \in Accessible : borrow[n] < 0
    /\ node_panic' = Some(BorrowError)
    /\ UNCHANGED <<heap, added, made, muts, borrow, held, freed>>
    /\ UNCHANGED <<runner_vars, next_vars, walk_vars, lock_vars>>

\* let g = n.children_mut() (lines 55-59): borrow_mut of line 58 succeeds while
\* no guard of n's RefCell is alive; the caller keeps the RefMut
ChildrenMut ==
    /\ node_panic = None
    /\ Small(heap, 1)
    /\ \E n \in Accessible :
          /\ borrow[n] = 0
          /\ borrow' = [borrow EXCEPT ![n] = -1]
    /\ UNCHANGED <<heap, added, made, muts, held, freed, node_panic>>
    /\ UNCHANGED <<runner_vars, next_vars, walk_vars, lock_vars>>

\* n.children_mut() while a guard of n's RefCell is alive: borrow_mut of line 58 panics
ChildrenMutPanic ==
    /\ node_panic = None
    /\ \E n \in Accessible : borrow[n] # 0
    /\ node_panic' = Some(BorrowMutError)
    /\ UNCHANGED <<heap, added, made, muts, borrow, held, freed>>
    /\ UNCHANGED <<runner_vars, next_vars, walk_vars, lock_vars>>

\* the caller drops the Ref or the RefMut it keeps, and with it the handle it
\* was borrowed through when that is not one the caller keeps
DropRef ==
    /\ node_panic = None
    /\ \E n \in 1..Len(heap) :
          /\ borrow[n] # 0
          /\ borrow' = [borrow EXCEPT ![n] = IF @ < 0 THEN 0 ELSE @ - 1]
          /\ freed' = drop_rc(heap, held, freed, borrow')
          /\ heap' = drop_vecs(heap, freed')
    /\ UNCHANGED <<added, made, muts, held, node_panic>>
    /\ UNCHANGED <<runner_vars, next_vars, walk_vars, lock_vars>>

\* one change the caller makes to the Vec of n through the RefMut it keeps
\* (the value children_mut returned, line 58): swap(i, j) of two places; the last
\* handle popped and kept, or popped and dropped; the Vec cleared; a handle
\* from clone_rc() of a node the caller can get to pushed; a node from
\* Node::new pushed.
RefMutChange ==
    /\ node_panic = None
    /\ Small(heap, 1)
    /\ \E n \in 1..Len(heap) :
          /\ borrow[n] < 0
          /\ LET v == children(heap, n)
                 popped == children_mut(heap, n, pop(v))
                 cleared == children_mut(heap, n, clear(v))
             IN \/ /\ \E i, j \in 1..Len(v) : i <= j /\ heap' = children_mut(heap, n, swap(v, i, j))
                   /\ UNCHANGED <<added, made, borrow, held, freed>>
                \/ /\ v # <<>>
                   /\ v[Len(v)] \notin held => Small(heap, 2)
                   /\ heap' = popped
                   /\ held' = held \cup {v[Len(v)]}
                   /\ UNCHANGED <<added, made, borrow, freed>>
                \/ /\ v # <<>>
                   /\ freed' = drop_rc(popped, held, freed, borrow)
                   /\ heap' = drop_vecs(popped, freed')
                   /\ UNCHANGED <<added, made, borrow, held>>
                \/ /\ v # <<>>
                   /\ freed' = drop_rc(cleared, held, freed, borrow)
                   /\ heap' = drop_vecs(cleared, freed')
                   /\ UNCHANGED <<added, made, borrow, held>>
                \/ /\ \E m \in Accessible : heap' = children_mut(heap, n, push(v, clone_rc(m)))
                   /\ UNCHANGED <<added, made, borrow, held, freed>>
                \/ /\ \E d \in Data :
                         heap' = children_mut(Append(heap, Node_new(d)), n, push(v, Len(heap) + 1))
                   /\ Small(heap', 1)
                   /\ added' = Append(added, <<>>)
                   /\ made' = Append(made, None)
                   /\ borrow' = Append(borrow, 0)
                   /\ UNCHANGED <<held, freed>>
    /\ muts' = muts + 1
    /\ UNCHANGED node_panic
    /\ UNCHANGED <<runner_vars, next_vars, walk_vars, lock_vars>>

\* let c = m.clone_rc() (lines 26-28) on a node the caller can get to: the
\* caller keeps the handle
CloneRc ==
    /\ node_panic = None
    /\ Small(heap, 1)
    /\ \E m \in Accessible \ held : held' = held \cup {clone_rc(m)}
    /\ UNCHANGED <<heap, added, made, muts, borrow, freed, node_panic>>
    /\ UNCHANGED <<runner_vars, next_vars, walk_vars, lock_vars>>

\* the caller drops the handles it keeps to one cell; the cells no handle is
\* left to are freed
DropHandle ==
    /\ node_panic = None
    /\ \E c \in held :
          /\ held' = held \ {c}
          /\ freed' = drop_rc(heap, held', freed, borrow)
          /\ heap' = drop_vecs(heap, freed')
    /\ UNCHANGED <<added, made, muts, borrow, node_panic>>
    /\ UNCHANGED <<runner_vars, next_vars, walk_vars, lock_vars>>

-----------------------------------------------------------------------------
(* node.rs: the walk of tests::complex_walk_operations (lines 227-236) *)

\* line 233: the handles pushed for the children of r, in the order of iter()
pushed_children(h, r) == [i \in 1..Len(children(h, r)) |-> clone_rc(children(h, r)[i])]

\* lines 227-230: let mut stack = Vec::new(); stack.push(root.clone_rc()); let mut test_sum = 0
WalkStart ==
    /\ walk_pc = "idle"
    /\ Len(heap) <= MaxWalkNodes
    /\ stack' = <<clone_rc(1)>>
    /\ test_sum' = 0
    /\ visited' = <<>>
    /\ walk_pc' = "walking"
    /\ UNCHANGED <<runner_vars, next_vars, node_vars, lock_vars>>

\* variant: the children replace the stack instead of being pushed on it
WalkVisit_replacing ==
    /\ walk_pc = "walking"
    /\ stack # <<>>
    /\ LET r == stack[Len(stack)]
       IN /\ test_sum' = test_sum + data(heap, r)
          /\ visited' = Append(visited, r)
          /\ stack' = pushed_children(heap, r)
    /\ UNCHANGED <<walk_pc, runner_vars, next_vars, node_vars, lock_vars>>

\* lines 231-234: one iteration of while let Some(r) = stack.pop()
WalkVisit ==
    /\ walk_pc = "walking"
    /\ stack # <<>>
    /\ LET r == stack[Len(stack)]
       IN /\ test_sum' = test_sum + data(heap, r)
          /\ visited' = Append(visited, r)
          /\ stack' = SubSeq(stack, 1, Len(stack) - 1) \o pushed_children(heap, r)
    /\ UNCHANGED <<walk_pc, runner_vars, next_vars, node_vars, lock_vars>>

\* line 231 when stack.pop() is None: the loop ends
WalkEnd ==
    /\ walk_pc = "walking"
    /\ stack = <<>>
    /\ walk_pc' = "done"
    /\ UNCHANGED <<stack, visited, test_sum, runner_vars, next_vars, node_vars, lock_vars>>

\* the tree is built first (lines 219-225), then walked
build_then_walk ==
    \/ (walk_pc = "idle" /\ AddChild)
    \/ (walk_pc = "idle" /\ AddAllChildren)
    \/ WalkStart
    \/ WalkVisit
    \/ WalkEnd

node_ops ==
    \/ AddChild
    \/ AddChildPanic
    \/ AddAllChildren
    \/ AddAllChildrenPanic
    \/ Children
    \/ ChildrenPanic
    \/ ChildrenMut
    \/ ChildrenMutPanic
    \/ DropRef
    \/ RefMutChange
    \/ CloneRc
    \/ DropHandle

-----------------------------------------------------------------------------
(* write_once_lock.rs: WriteOnceLock<T> *)

Threads == 1..MaxThreads
Values == 1..MaxValue

\* the panic of line 18
AttemptedMsg == "Attempted to write to WriteOnceLock more than once."
\* the panics of AtomicRefCell::borrow / borrow_mut on a conflicting borrow
MutablyBorrowedMsg == "already mutably borrowed"
ImmutablyBorrowedMsg == "already immutably borrowed"
BorrowMsgs == {MutablyBorrowedMsg, ImmutablyBorrowedMsg}

\* the message of a failing borrow_mut: which kind of borrow is in its way
BorrowMsg ==
    IF \E t \in Threads : guards[t] = "mut" THEN MutablyBorrowedMsg ELSE ImmutablyBorrowedMsg

\* AtomicRefCell::borrow_mut succeeds when no borrow of the cell is alive
can_borrow_mut == \A t \in Threads : guards[t] \notin {"mut", "shared"}

\* AtomicRefCell::borrow succeeds when no AtomicRefMut of the cell is alive
can_borrow == \A t \in Threads : guards[t] # "mut"

\* WriteOnceLock::has_written (lines 10-12)
has_written == lock_has_written

\* the last value of a sequence of observations, extended by one more
observe(s, v) == IF s # <<>> /\ s[Len(s)] = v THEN s ELSE Append(s, v)

\* a lock with an empty slot, shared by the threads
LockInit ==
    /\ lock_data = None
    /\ lock_has_written = FALSE
    /\ guards = [t \in Threads |-> "none"]
    /\ lock_pc = [t \in Threads |-> "caller"]
    /\ last_write_once = None
    /\ seen = <<>>

\* write_once, line 15 succeeds: the local `data` holds the AtomicRefMut
WriteOnceBorrow ==
    \E t \in Threads :
        /\ lock_pc[t] = "caller"
        /\ can_borrow_mut
        /\ guards' = [guards EXCEPT ![t] = "mut"]
        /\ lock_pc' = [lock_pc EXCEPT ![t] = "write_once"]
        /\ UNCHANGED <<lock_data, lock_has_written, last_write_once, seen>>
        /\ UNCHANGED <<runner_vars, next_vars, node_vars, walk_vars>>

\* write_once, line 15 panics: the cell is borrowed; the thread starts to
\* unwind, still holding the guard of its own it may have
WriteOnceBorrowPanic ==
    \E t \in Threads :
        /\ lock_pc[t] = "caller"
        /\ ~can_borrow_mut
        /\ lock_pc' = [lock_pc EXCEPT ![t] = "unwinding"]
        /\ last_write_once' = Some([was_some |-> is_some(lock_data), was_borrowed |-> TRUE,
                                    result |-> BorrowMsg])
        /\ UNCHANGED <<lock_data, lock_has_written, guards, seen>>
        /\ UNCHANGED <<runner_vars, next_vars, node_vars, walk_vars>>

\* variant: write_once hands out the guard although the slot is full
WriteOncePanic_allows ==
    \E t \in Threads :
        /\ lock_pc[t] = "write_once"
        /\ is_some(lock_data)
        /\ lock_pc' = [lock_pc EXCEPT ![t] = "caller"]
        /\ last_write_once' = Some([was_some |-> TRUE, was_borrowed |-> FALSE,
                                    result |-> "guard"])
        /\ UNCHANGED <<lock_data, lock_has_written, guards, seen>>
        /\ UNCHANGED <<runner_vars, next_vars, node_vars, walk_vars>>

\* write_once, lines 17-19: the slot is full; panic.  `data` is still alive:
\* it is dropped when the unwinding reaches it
WriteOncePanic ==
    \E t \in Threads :
        /\ lock_pc[t] = "write_once"
        /\ is_some(lock_data)
        /\ lock_pc' = [lock_pc EXCEPT ![t] = "unwinding"]
        /\ last_write_once' = Some([was_some |-> TRUE, was_borrowed |-> FALSE,
                                    result |-> AttemptedMsg])
        /\ UNCHANGED <<lock_data, lock_has_written, guards, seen>>
        /\ UNCHANGED <<runner_vars, next_vars, node_vars, walk_vars>>

\* write_once, lines 17-22: the slot is empty; the AtomicRefMut is returned
WriteOnceOk ==
    \E t \in Threads :
        /\ lock_pc[t] = "write_once"
        /\ is_none(lock_data)
        /\ lock_pc' = [lock_pc EXCEPT ![t] = "caller"]
        /\ last_write_once' = Some([was_some |-> FALSE, was_borrowed |-> FALSE,
                                    result |-> "guard"])
        /\ UNCHANGED <<lock_data, lock_has_written, guards, seen>>
        /\ UNCHANGED <<runner_vars, next_vars, node_vars, walk_vars>>

\* the unwinding of a panicking thread drops the borrow its frames hold; the
\* thread ends
Unwind ==
    \E t \in Threads :
        /\ lock_pc[t] = "unwinding"
        /\ guards' = [guards EXCEPT ![t] = "none"]
        /\ lock_pc' = [lock_pc EXCEPT ![t] = "panicked"]
        /\ UNCHANGED <<lock_data, lock_has_written, last_write_once, seen>>
        /\ UNCHANGED <<runner_vars, next_vars, node_vars, walk_vars>>

\* the caller assigns through the AtomicRefMut<Option<T>> it was returned (line 14)
GuardStore ==
    \E t \in Threads, v \in {None} \cup {Some(x) : x \in Values} :
        /\ lock_pc[t] = "caller"
        /\ guards[t] = "mut"
        /\ lock_data' = v
        /\ UNCHANGED <<lock_has_written, guards, lock_pc, last_write_once, seen>>
        /\ UNCHANGED <<runner_vars, next_vars, node_vars, walk_vars>>

\* the caller drops the guard it holds
DropGuard ==
    \E t \in Threads :
        /\ lock_pc[t] = "caller"
        /\ guards[t] \in {"mut", "shared"}
        /\ guards' = [guards EXCEPT ![t] = "none"]
        /\ UNCHANGED <<lock_data, lock_has_written, lock_pc, last_write_once, seen>>
        /\ UNCHANGED <<runner_vars, next_vars, node_vars, walk_vars>>

\* read, lines 25-27: the AtomicRef is returned and the caller looks at the slot
ReadOk ==
    \E t \in Threads :
        /\ lock_pc[t] = "caller"
        /\ guards[t] = "none"
        /\ can_borrow
        /\ guards' = [guards EXCEPT ![t] = "shared"]
        /\ seen' = observe(seen, lock_data)
        /\ UNCHANGED <<lock_data, lock_has_written, lock_pc, last_write_once>>
        /\ UNCHANGED <<runner_vars, next_vars, node_vars, walk_vars>>

\* read, line 26 panics: an AtomicRefMut is alive; the thread starts to unwind,
\* still holding the guard of its own it may have
ReadBorrowPanic ==
    \E t \in Threads :
        /\ lock_pc[t] = "caller"
        /\ ~can_borrow
        /\ lock_pc' = [lock_pc EXCEPT ![t] = "unwinding"]
        /\ UNCHANGED <<lock_data, lock_has_written, guards, last_write_once, seen>>
        /\ UNCHANGED <<runner_vars, next_vars, node_vars, walk_vars>>

lock_ops ==
    \/ WriteOnceBorrow
    \/ WriteOnceBorrowPanic
    \/ WriteOncePanic
    \/ WriteOnceOk
    \/ Unwind
    \/ GuardStore
    \/ DropGuard
    \/ ReadOk
    \/ ReadBorrowPanic

-----------------------------------------------------------------------------
(* The specifications *)

\* GameRunner::new(black_agent, white_agent, start_state).play()
Init == RunnerInit /\ NextIdle /\ NodeIdle /\ WalkIdle /\ LockIdle
Next == play
Spec == Init /\ [][Next]_vars

\* play() runs on one thread that takes its next step whenever it has one
FairSpec == Init /\ [][Next]_vars /\ WF_vars(Next)

\* play() with any game and any agents; a panic of the agent ends the run
OpenInit == RunnerOpenInit /\ NextIdle /\ NodeIdle /\ WalkIdle /\ LockIdle
OpenNext == play \/ PickActionPanic
OpenSpec == OpenInit /\ [][OpenNext]_vars

\* one call s.next(a)
NextFnInit == RunnerIdle /\ NextInit /\ NodeIdle /\ WalkIdle /\ LockIdle
NextFnSpec == NextFnInit /\ [][next]_vars

\* let mut root = Node::new(d), followed by any calls that add nodes below it
NodeSpecInit == RunnerIdle /\ NextIdle /\ NodeInit /\ WalkIdle /\ LockIdle
NodeSpec == NodeSpecInit /\ [][node_ops]_vars

\* threads calling write_once and read on one lock, in any interleaving
LockSpecInit == RunnerIdle /\ NextIdle /\ NodeIdle /\ WalkIdle /\ LockInit
LockSpec == LockSpecInit /\ [][lock_ops]_vars

\* a tree is built and then walked; the test's thread runs the walk to its end
WalkSpec == NodeSpecInit /\ [][build_then_walk]_vars /\ WF_vars(WalkVisit \/ WalkEnd)

-----------------------------------------------------------------------------
(* Properties of GameRunner::play on the reference game *)

\* every legal action raises num by at least 2, so a game started at s is
\* decided after at most this many actions
MaxActions(s) == IF s.num >= 42 THEN 0 ELSE (42 - s.num + 1) \div 2

WinFor(color) == IF color = Black THEN BlackWins ELSE WhiteWins

ReferenceScenario ==
    /\ start_state = SimpleGameState_new
    /\ black_agent = SimpleAgent
    /\ white_agent = SimpleAgent

\* C1 (termination): on the reference game, whatever member of the slice the
\* agents return, play() never applies more than MaxActions(start_state)
\* actions and eventually returns.
C1_Termination ==
    /\ [](applied <= MaxActions(start_state))
    /\ <>(pc = "done")

\* play() has returned after exactly the bound of 21 actions from counter 0
C1_Witness ==
    /\ pc = "done"
    /\ start_state.num = 0
    /\ applied = MaxActions(start_state)
    /\ applied = 21

\* C2 (turn alternation, as claimed): the turns shown to the agents in two
\* successive pick_action calls differ.
C2_TurnAlternation ==
    (is_some(prev_turn) /\ is_some(shown_state))
        => unwrap(prev_turn) # current_player_turn(unwrap(shown_state))

\* C3 (outcome monotonicity): a step taken from a state whose outcome() is
\* some value neither calls pick_action nor make_next nor changes the state,
\* and every make_next follows a check at line 73 that found outcome() none.
C3_OutcomeMonotonic ==
    [][ /\ is_some(outcome(game_state))
            => (picks' = picks /\ applied' = applied /\ game_state' = game_state)
        /\ (applied' # applied \/ picks' # picks) => checked = Some(None)
      ]_vars

\* play() has returned from a decided state after applying actions
C3_Witness ==
    /\ pc = "done"
    /\ applied > 0
    /\ is_some(outcome(game_state))
    /\ checked = Some(outcome(game_state))

\* C4 (terminal start): when the start state already has an outcome, no
\* agent is ever called, make_next is never called, the state stays the one
\* constructed, and play() is at its loop check or has returned.
C4_TerminalStart ==
    is_some(outcome(start_state))
        => /\ picks = 0
           /\ applied = 0
           /\ called = None
           /\ game_state = start_state
           /\ pc \in {"loop", "done"}

\* play() has returned on a start state that was already decided
C4_Witness ==
    /\ pc = "done"
    /\ is_some(outcome(start_state))
    /\ picks = 0

\* C5 (agent selection): the agent selected, and the agent whose pick_action
\* was called, is black_agent exactly when the state shown has Black to move
\* and white_agent exactly when it has White to move.
C5_AgentSelection ==
    /\ is_some(active_player)
          => /\ (unwrap(active_player) = "black_agent") <=> (current_player_turn(game_state) = Black)
             /\ (unwrap(active_player) = "white_agent") <=> (current_player_turn(game_state) = White)
    /\ is_some(called)
          => /\ (unwrap(called) = "black_agent") <=> (current_player_turn(unwrap(shown_state)) = Black)
             /\ (unwrap(called) = "white_agent") <=> (current_player_turn(unwrap(shown_state)) = White)

\* the white agent has been called on a state with White to move
C5_Witness ==
    /\ called = Some("white_agent")
    /\ current_player_turn(unwrap(shown_state)) = White
    /\ picks > 0

\* C6 (reference scenario): from counter 0 with Black to move and two
\* SimpleAgents, the counter is always twice the number of applied actions,
\* play() returns, and when it has returned the counter is 42 after 21
\* actions with a win outcome for the color current_player_turn() reports.
C6_ReferenceScenario ==
    /\ [](ReferenceScenario =>
            /\ game_state.num = 2 * applied
            /\ applied <= 21
            /\ pc = "done" =>
                  /\ game_state.num = 42
                  /\ applied = 21
                  /\ outcome(game_state) \in {Some(BlackWins), Some(WhiteWins)}
                  /\ outcome(game_state) = Some(WinFor(current_player_turn(game_state))))
    /\ (ReferenceScenario => <>(pc = "done"))

\* the reference scenario has returned at counter 42
C6_Witness ==
    /\ ReferenceScenario
    /\ pc = "done"
    /\ game_state.num = 42
    /\ picks = 21

-----------------------------------------------------------------------------
(* Properties of GameState::next *)

\* C7 (pure and in-place transition agree): during a call s.next(a) the
\* receiver stays as it was at the call, and the value returned equals the
\* clone of s after make_next(a).
C7_NextEquivalence ==
    /\ next_pc # "idle" => next_self = next_orig
    /\ next_pc = "returned"
          => next_ret = Some(make_next(clone(next_orig), unwrap(next_action)))

\* a call of next has returned a state that differs from its receiver
C7_Witness ==
    /\ next_pc = "returned"
    /\ is_some(next_ret)
    /\ unwrap(next_ret).num = next_self.num + unwrap(next_action).bump
    /\ unwrap(next_ret) # next_self

-----------------------------------------------------------------------------
(* Properties of the reference game's legal actions *)

\* C8 (non-empty legal actions): every state the runner reaches whose
\* outcome() is none has a non-empty legal_actions(), and every slice handed
\* to an agent is non-empty.
C8_NonEmptyLegal ==
    /\ is_none(outcome(game_state)) => Len(legal_actions(game_state)) > 0
    /\ is_some(legal) => Len(unwrap(legal)) > 0
    /\ is_some(shown_actions) => Len(unwrap(shown_actions)) > 0

\* an agent has been handed the slice of an undecided state one bump from 42
C8_Witness ==
    /\ pc = "apply"
    /\ game_state.num = 41
    /\ is_none(outcome(game_state))
    /\ shown_actions = Some(legal_actions(game_state))
    /\ Len(unwrap(shown_actions)) = 3

-----------------------------------------------------------------------------
(* Properties of one iteration of GameRunner::play *)

\* C9 (one action per iteration): between iterations the number of make_next
\* calls equals the number of pick_action calls, inside an iteration at most
\* one pick_action call is not yet followed by its make_next, the action
\* applied is the one the agent returned, and a step makes at most one call.
C9_OneActionPerIteration ==
    /\ [](/\ pc \in {"loop", "select", "legal", "pick", "done"} => applied = picks
          /\ pc = "apply" => picks = applied + 1
          /\ (applied > 0 /\ pc # "apply") => applied_action = returned)
    /\ [][ /\ applied' # applied
               => /\ applied' = applied + 1
                  /\ picks' = picks
                  /\ is_some(returned)
                  /\ game_state' = make_next(game_state, unwrap(returned))
           /\ picks' # picks
               => /\ picks' = picks + 1
                  /\ applied' = applied
                  /\ game_state' = game_state
         ]_vars

\* an agent free to choose returned a bump other than the first, and it was applied
C9_Witness ==
    /\ pc = "loop"
    /\ applied = picks
    /\ applied > 1
    /\ returned = Some(SimpleGameAction_new(4))
    /\ applied_action = returned

-----------------------------------------------------------------------------
(* Properties of Node *)

Nodes == 1..Len(heap)

\* the data of the children of n, in the order children() lists them
ChildData(h, n) == [i \in 1..Len(children(h, n)) |-> data(h, children(h, n)[i])]

\* C10 (child ordering): while no Vec was changed through a RefMut of
\* children_mut, children() of every node lists one child per datum added to
\* it by add_child and add_all_children, in insertion order, and no node is
\* listed twice; and every call that adds children to a node leaves the
\* children of every other node, and the children the node had, as they were.
C10_ChildOrdering ==
    /\ [](muts = 0 =>
          /\ \A n \in Nodes \ freed :
                /\ Len(children(heap, n)) = Len(added[n])
                /\ ChildData(heap, n) = added[n]
          /\ \A n, m \in Nodes : \A i \in 1..Len(children(heap, n)) :
                \A j \in 1..Len(children(heap, m)) :
                    children(heap, n)[i] = children(heap, m)[j] => (n = m /\ i = j))
    /\ [][ (muts' = muts /\ Len(heap') > Len(heap)) =>
           /\ Cardinality({n \in Nodes : children(heap', n) # children(heap, n)}) <= 1
           /\ \A n \in Nodes :
                /\ data(heap', n) = data(heap, n)
                /\ SubSeq(children(heap', n), 1, Len(children(heap, n))) = children(heap, n)
         ]_vars

\* a node holds two children of differing data, the larger added first, while
\* another node has a child too, all of them from add_child and
\* add_all_children
C10_Witness ==
    /\ muts = 0
    /\ \E n, m \in Nodes :
          /\ n # m
          /\ added[n] = <<2, 1>>
          /\ ChildData(heap, n) = <<2, 1>>
          /\ Len(children(heap, m)) = 1

-----------------------------------------------------------------------------
(* Properties of GameRunner::play under agents and games that break their contracts *)

\* C12 (unvalidated action application): when the value pick_action returned
\* is not an element of the slice the agent was given, the next step of play()
\* still applies it with make_next and goes back to the loop check; the only
\* fault of a run is a panic inside an agent's pick_action.
C12_UnvalidatedApplication ==
    /\ [](pc = "panicked"
            => /\ is_some(called)
               /\ pick_action_panics(agent_of(unwrap(called)), unwrap(shown_actions)))
    /\ [][ (pc = "apply" /\ unwrap(selected_action) \notin Range(unwrap(legal)))
              => /\ game_state' = make_next(game_state, unwrap(selected_action))
                 /\ applied_action' = selected_action
                 /\ applied' = applied + 1
                 /\ picks' = picks
                 /\ pc' = "loop"
         ]_vars

\* on the reference game an action outside the slice was applied and the loop went on
C12_Witness ==
    /\ game = SimpleGame
    /\ pc = "select"
    /\ applied = picks
    /\ applied > 0
    /\ is_some(returned)
    /\ unwrap(returned) \notin Range(unwrap(shown_actions))
    /\ applied_action = returned
    /\ game_state.num = unwrap(shown_state).num + unwrap(returned).bump

\* C13 (empty legal actions while undecided): when outcome() is none and
\* legal_actions() is empty, play() goes on to call pick_action on the selected
\* agent with the empty slice; SimpleAgent then panics and play() does not
\* return, and an agent that returns an action has it applied and the loop
\* continues.
C13_EmptyLegalActions ==
    /\ [](/\ pc = "panicked"
              => /\ shown_actions = Some(<<>>)
                 /\ agent_of(unwrap(called)) = SimpleAgent
                 /\ shown_state = Some(game_state)
                 /\ applied = picks
          /\ pc = "done" => is_some(outcome(game_state)))
    /\ [][ /\ (pc = "legal" /\ GameState_legal_actions(game, game_state) = <<>>)
              => /\ pc' = "pick"
                 /\ legal' = Some(<<>>)
                 /\ is_none(outcome(game_state))
           /\ (pc = "pick" /\ legal = Some(<<>>))
              => /\ called' = active_player
                 /\ shown_actions' = Some(<<>>)
                 /\ shown_state' = Some(game_state)
                 /\ IF agent_of(unwrap(active_player)) = SimpleAgent
                    THEN pc' = "panicked" /\ picks' = picks
                    ELSE pc' = "apply" /\ picks' = picks + 1
           /\ (pc = "apply" /\ legal = Some(<<>>))
              => /\ pc' = "loop"
                 /\ game_state' = make_next(game_state, unwrap(returned))
         ]_vars

\* SimpleAgent was called with an empty slice on an undecided state and panicked
C13_Witness ==
    /\ game = NoMovesGame
    /\ pc = "panicked"
    /\ is_none(outcome(game_state))
    /\ shown_actions = Some(<<>>)
    /\ agent_of(unwrap(called)) = SimpleAgent

-----------------------------------------------------------------------------
(* Further properties of GameRunner::play on the reference game *)

\* C14 (is_final is never called): play() never calls GameOutcome::is_final,
\* never faults, and returns, although is_final of the reference game panics.
C14_IsFinalNeverCalled ==
    /\ [](is_final_calls = 0 /\ pc # "panicked")
    /\ <>(pc = "done")

\* play() has returned on a win outcome, whose is_final would have panicked
C14_Witness ==
    /\ pc = "done"
    /\ game_state.num = 42
    /\ applied > 0
    /\ is_final(unwrap(outcome(game_state))) = "panic"
    /\ is_final_calls = 0

\* C15 (agent view): from the check that found outcome() none to the
\* make_next of the iteration the state does not change; the state shown to
\* pick_action is that state and the slice shown is legal_actions() of it;
\* only the make_next step changes the runner's state.
C15_AgentView ==
    /\ [](/\ pc \in {"select", "legal", "pick", "apply"}
              => /\ checked = Some(None)
                 /\ is_none(outcome(game_state))
          /\ pc = "pick" => legal = Some(legal_actions(game_state))
          /\ pc = "apply"
              => /\ shown_state = Some(game_state)
                 /\ shown_actions = Some(legal_actions(game_state))
                 /\ shown_actions = legal)
    /\ [][ /\ game_state' # game_state => (pc = "apply" /\ pc' = "loop")
           /\ pc' = "apply" => shown_state' = Some(game_state)
         ]_vars

\* an agent has been shown a state reached by earlier moves, with its legal actions
C15_Witness ==
    /\ pc = "apply"
    /\ applied > 0
    /\ shown_state = Some(game_state)
    /\ game_state # start_state
    /\ shown_actions = Some(legal_actions(game_state))

-----------------------------------------------------------------------------
(* Further properties of Node *)

\* C11 (parent links): parent() of every node made by add_child or
\* add_all_children on a node p is, while p is alive, a handle to p (the same
\* cell, so the same data and children), whatever the caller did to the
\* children lists since; parent() of a node made by Node::new is None whether
\* or not children were added to it; and while no Vec was changed through a
\* RefMut and no cell was freed, the children a node lists are the nodes made
\* on it.
C11_ParentLinks ==
    /\ \A c \in Nodes \ freed :
          /\ is_none(made[c]) => parent(heap, c) = None
          /\ (is_some(made[c]) /\ unwrap(made[c]) \notin freed) =>
                LET p == unwrap(made[c])
                IN /\ parent(heap, c) = Some(p)
                   /\ data(heap, unwrap(parent(heap, c))) = data(heap, p)
                   /\ children(heap, unwrap(parent(heap, c))) = children(heap, p)
    /\ (muts = 0 /\ freed = {}) =>
          /\ is_none(made[1]) /\ parent(heap, 1) = None
          /\ \A p \in Nodes : \A i \in 1..Len(children(heap, p)) :
                parent(heap, children(heap, p)[i]) = Some(p)
          /\ \A c \in Nodes \ {1} :
                /\ is_some(parent(heap, c))
                /\ \E i \in 1..Len(children(heap, unwrap(parent(heap, c)))) :
                      children(heap, unwrap(parent(heap, c)))[i] = c

\* a grandchild's parent chain leads to the root, whose parent() is None
C11_Witness ==
    \E c, p \in Nodes \ freed :
        /\ parent(heap, c) = Some(p)
        /\ parent(heap, p) = Some(1)
        /\ parent(heap, 1) = None
        /\ Len(children(heap, 1)) >= 2

-----------------------------------------------------------------------------
(* The rules of the reference game, as the runner meets them *)

\* the color of the agent whose pick_action was called last: the mover
MoverColor == IF unwrap(called) = "black_agent" THEN Black ELSE White

\* C16 (reference game rules): SimpleGameState::new has counter 0; in every
\* state legal_actions() is the bumps 2, 3, 4 in that order; make_next adds the
\* bump to the counter and nothing else; outcome() is none exactly below 42,
\* BothLose exactly above 42, and at 42 the win of the player who moved there.
C16_ReferenceRules ==
    /\ [](/\ SimpleGameState_new.num = 0
          /\ legal_actions(game_state) = <<[bump |-> 2], [bump |-> 3], [bump |-> 4]>>
          /\ is_none(outcome(game_state)) <=> game_state.num < 42
          /\ outcome(game_state) = Some(BothLose) <=> game_state.num > 42
          /\ (game_state.num = 42 /\ applied > 0)
                => outcome(game_state) = Some(WinFor(MoverColor)))
    /\ [][ applied' # applied
             => /\ game_state'.num = game_state.num + unwrap(applied_action').bump
                /\ game_state'.cur_player = game_state.cur_player
         ]_vars

\* White moved the counter from 38 to 42 and the outcome is WhiteWins
C16_Witness ==
    /\ game_state.num = 42
    /\ applied > 0
    /\ called = Some("white_agent")
    /\ applied_action = Some([bump |-> 4])
    /\ outcome(game_state) = Some(WhiteWins)

\* C17 (reference game under any agents): from counter 0, with agents that
\* return a member of their slice, every make_next raises the counter, at most
\* 21 actions are applied, and play() has returned only after 11 to 21 actions
\* with the counter in 42..45; outcome() is none exactly when the counter is
\* below 42, and a decided state stays decided under every legal action.
C17_AnyAgents ==
    /\ [](/\ start_state.num = 0
              => /\ applied <= 21
                 /\ pc = "done"
                       => /\ applied \in 11..21
                          /\ game_state.num \in 42..45
          /\ is_none(outcome(game_state)) <=> game_state.num < 42
          /\ is_some(outcome(game_state))
              => \A a \in Range(legal_actions(game_state)) :
                    is_some(outcome(make_next(game_state, a))))
    /\ [][ applied' # applied => game_state'.num > game_state.num ]_vars

\* the shortest game: eleven bumps of 4 from counter 0, ending at 44
C17_Witness ==
    /\ start_state.num = 0
    /\ pc = "done"
    /\ applied = 11
    /\ game_state.num = 44
    /\ outcome(game_state) = Some(BothLose)

-----------------------------------------------------------------------------
(* Properties of the walk *)

RECURSIVE SumData(_, _)
\* the sum of the data of the cells 1..n
SumData(h, n) == IF n = 0 THEN 0 ELSE data(h, n) + SumData(h, n - 1)

\* C18 (tree walk completeness): the walk from root.clone_rc() never meets a
\* node twice, always ends, and when it has ended it has visited every node of
\* the tree exactly once, so test_sum is the sum of all data inserted; a handle
\* from clone_rc() lists the children added through the original handle.
C18_WalkCompleteness ==
    /\ [](/\ \A i, j \in 1..Len(visited) : visited[i] = visited[j] => i = j
          /\ \A i \in 1..Len(visited) : \A j \in 1..Len(stack) : visited[i] # stack[j]
          /\ \A n \in Nodes : children(heap, clone_rc(n)) = children(heap, n)
          /\ walk_pc = "done"
              => /\ stack = <<>>
                 /\ Range(visited) = Nodes
                 /\ Len(visited) = Len(heap)
                 /\ test_sum = SumData(heap, Len(heap)))
    /\ (walk_pc = "walking") ~> (walk_pc = "done")

\* a tree of two levels has been walked to the end
C18_Witness ==
    /\ walk_pc = "done"
    /\ Len(heap) = 4
    /\ Len(visited) = 4
    /\ Len(children(heap, 1)) = 2
    /\ \E c \in Nodes : parent(heap, c) # None /\ parent(heap, c) # Some(1)
    /\ test_sum = SumData(heap, 4)

-----------------------------------------------------------------------------
(* Properties of WriteOnceLock *)

C20_HasWrittenTracks ==
    can_borrow => (has_written <=> is_some(lock_data))

====
